---- MODULE Spec2Model ----
(***************************************************************************)
(* Model of scripts/fetch_taxonomy_subset.py: the one-shot pipeline        *)
(* fetch -> filter -> pad -> sort/truncate -> serialize.                   *)
(*                                                                         *)
(* A Python str is a sequence of codepoints (naturals); a list of str is   *)
(* a sequence of such sequences.  The served text is chosen by the fetch   *)
(* from a bounded family of texts; every later step is the code's.         *)
(***************************************************************************)
EXTENDS Integers, Sequences, FiniteSets, TLC

\* ---------------------------------------------------------------- bounds
\* Number of lines drawn freely from LinePool in a served text.
MaxLines == 2

\* ------------------------------------------------------ program constants
\* `if len(electronics_categories) < 15`
MinCategories == 15
\* `electronics_categories[:20]`
MaxCategories == 20

\* codepoints the code names
NL == 10
HASH == 35

\* Python's None for a str-valued variable, and for a list-valued one
\* (an impossible codepoint keeps them apart from every real value).
None == <<-1>>
NoList == << <<-1>> >>

\* target_patterns (the literal after the '^' anchor of each regex)
target_patterns ==
 <<
  \* 'Electronics'
  <<69, 108, 101, 99, 116, 114, 111, 110, 105, 99, 115>>,
  \* 'Electronics > Audio'
  <<69, 108, 101, 99, 116, 114, 111, 110, 105, 99, 115, 32, 62, 32, 65, 117, 100, 105, 111>>,
  \* 'Electronics > Cameras'
  <<69, 108, 101, 99, 116, 114, 111, 110, 105, 99, 115, 32, 62, 32, 67, 97, 109, 101, 114, 97, 115>>,
  \* 'Electronics > Communications'
  <<69, 108, 101, 99, 116, 114, 111, 110, 105, 99, 115, 32, 62, 32, 67, 111, 109, 109, 117, 110, 105, 99, 97, 116, 105, 111, 110, 115>>,
  \* 'Electronics > Computers'
  <<69, 108, 101, 99, 116, 114, 111, 110, 105, 99, 115, 32, 62, 32, 67, 111, 109, 112, 117, 116, 101, 114, 115>>,
  \* 'Electronics > Gaming'
  <<69, 108, 101, 99, 116, 114, 111, 110, 105, 99, 115, 32, 62, 32, 71, 97, 109, 105, 110, 103>>,
  \* 'Electronics > Home Audio'
  <<69, 108, 101, 99, 116, 114, 111, 110, 105, 99, 115, 32, 62, 32, 72, 111, 109, 101, 32, 65, 117, 100, 105, 111>>,
  \* 'Electronics > Mobile Phones'
  <<69, 108, 101, 99, 116, 114, 111, 110, 105, 99, 115, 32, 62, 32, 77, 111, 98, 105, 108, 101, 32, 80, 104, 111, 110, 101, 115>>,
  \* 'Electronics > Tablets'
  <<69, 108, 101, 99, 116, 114, 111, 110, 105, 99, 115, 32, 62, 32, 84, 97, 98, 108, 101, 116, 115>>,
  \* 'Electronics > Video'
  <<69, 108, 101, 99, 116, 114, 111, 110, 105, 99, 115, 32, 62, 32, 86, 105, 100, 101, 111>>,
  \* 'Electronics > Wearables'
  <<69, 108, 101, 99, 116, 114, 111, 110, 105, 99, 115, 32, 62, 32, 87, 101, 97, 114, 97, 98, 108, 101, 115>>
 >>

\* additional_categories
additional_categories ==
 <<
  \* 'Electronics > Audio > Headphones'
  <<69, 108, 101, 99, 116, 114, 111, 110, 105, 99, 115, 32, 62, 32, 65, 117, 100, 105, 111, 32, 62, 32, 72, 101, 97, 100, 112, 104, 111, 110, 101, 115>>,
  \* 'Electronics > Audio > Speakers'
  <<69, 108, 101, 99, 116, 114, 111, 110, 105, 99, 115, 32, 62, 32, 65, 117, 100, 105, 111, 32, 62, 32, 83, 112, 101, 97, 107, 101, 114, 115>>,
  \* 'Electronics > Cameras > Digital Cameras'
  <<69, 108, 101, 99, 116, 114, 111, 110, 105, 99, 115, 32, 62, 32, 67, 97, 109, 101, 114, 97, 115, 32, 62, 32, 68, 105, 103, 105, 116, 97, 108, 32, 67, 97, 109, 101, 114, 97, 115>>,
  \* 'Electronics > Communications > Telephony > Mobile Phone Accessories'
  <<69, 108, 101, 99, 116, 114, 111, 110, 105, 99, 115, 32, 62, 32, 67, 111, 109, 109, 117, 110, 105, 99, 97, 116, 105, 111, 110, 115, 32, 62, 32, 84, 101, 108, 101, 112, 104, 111, 110, 121, 32, 62, 32, 77, 111, 98, 105, 108, 101, 32, 80, 104, 111, 110, 101, 32, 65, 99, 99, 101, 115, 115, 111, 114, 105, 101, 115>>,
  \* 'Electronics > Communications > Telephony > Mobile Phones'
  <<69, 108, 101, 99, 116, 114, 111, 110, 105, 99, 115, 32, 62, 32, 67, 111, 109, 109, 117, 110, 105, 99, 97, 116, 105, 111, 110, 115, 32, 62, 32, 84, 101, 108, 101, 112, 104, 111, 110, 121, 32, 62, 32, 77, 111, 98, 105, 108, 101, 32, 80, 104, 111, 110, 101, 115>>,
  \* 'Electronics > Computers > Desktop Computers'
  <<69, 108, 101, 99, 116, 114, 111, 110, 105, 99, 115, 32, 62, 32, 67, 111, 109, 112, 117, 116, 101, 114, 115, 32, 62, 32, 68, 101, 115, 107, 116, 111, 112, 32, 67, 111, 109, 112, 117, 116, 101, 114, 115>>,
  \* 'Electronics > Computers > Laptops'
  <<69, 108, 101, 99, 116, 114, 111, 110, 105, 99, 115, 32, 62, 32, 67, 111, 109, 112, 117, 116, 101, 114, 115, 32, 62, 32, 76, 97, 112, 116, 111, 112, 115>>,
  \* 'Electronics > Computers > Tablets'
  <<69, 108, 101, 99, 116, 114, 111, 110, 105, 99, 115, 32, 62, 32, 67, 111, 109, 112, 117, 116, 101, 114, 115, 32, 62, 32, 84, 97, 98, 108, 101, 116, 115>>,
  \* 'Electronics > Gaming > Video Game Consoles'
  <<69, 108, 101, 99, 116, 114, 111, 110, 105, 99, 115, 32, 62, 32, 71, 97, 109, 105, 110, 103, 32, 62, 32, 86, 105, 100, 101, 111, 32, 71, 97, 109, 101, 32, 67, 111, 110, 115, 111, 108, 101, 115>>,
  \* 'Electronics > Home Audio > Home Theater Systems'
  <<69, 108, 101, 99, 116, 114, 111, 110, 105, 99, 115, 32, 62, 32, 72, 111, 109, 101, 32, 65, 117, 100, 105, 111, 32, 62, 32, 72, 111, 109, 101, 32, 84, 104, 101, 97, 116, 101, 114, 32, 83, 121, 115, 116, 101, 109, 115>>,
  \* 'Electronics > Mobile Phones > Smartphones'
  <<69, 108, 101, 99, 116, 114, 111, 110, 105, 99, 115, 32, 62, 32, 77, 111, 98, 105, 108, 101, 32, 80, 104, 111, 110, 101, 115, 32, 62, 32, 83, 109, 97, 114, 116, 112, 104, 111, 110, 101, 115>>,
  \* 'Electronics > Video > Televisions'
  <<69, 108, 101, 99, 116, 114, 111, 110, 105, 99, 115, 32, 62, 32, 86, 105, 100, 101, 111, 32, 62, 32, 84, 101, 108, 101, 118, 105, 115, 105, 111, 110, 115>>,
  \* 'Electronics > Wearables > Smartwatches'
  <<69, 108, 101, 99, 116, 114, 111, 110, 105, 99, 115, 32, 62, 32, 87, 101, 97, 114, 97, 98, 108, 101, 115, 32, 62, 32, 83, 109, 97, 114, 116, 119, 97, 116, 99, 104, 101, 115>>,
  \* 'Electronics > Wearables > Fitness Trackers'
  <<69, 108, 101, 99, 116, 114, 111, 110, 105, 99, 115, 32, 62, 32, 87, 101, 97, 114, 97, 98, 108, 101, 115, 32, 62, 32, 70, 105, 116, 110, 101, 115, 115, 32, 84, 114, 97, 99, 107, 101, 114, 115>>
 >>

\* Raw lines the served text is assembled from
LinePool ==
 <<
  \* 'Electronics > Audio'
  <<69, 108, 101, 99, 116, 114, 111, 110, 105, 99, 115, 32, 62, 32, 65, 117, 100, 105, 111>>,
  \* 'Electronics > Audio > Headphones'
  <<69, 108, 101, 99, 116, 114, 111, 110, 105, 99, 115, 32, 62, 32, 65, 117, 100, 105, 111, 32, 62, 32, 72, 101, 97, 100, 112, 104, 111, 110, 101, 115>>,
  \* 'RandomCategory'
  <<82, 97, 110, 100, 111, 109, 67, 97, 116, 101, 103, 111, 114, 121>>,
  \* '# comment'
  <<35, 32, 99, 111, 109, 109, 101, 110, 116>>,
  \* ''
  <<>>,
  \* ' \tElectronics > Video > Televisions\r'
  <<32, 9, 69, 108, 101, 99, 116, 114, 111, 110, 105, 99, 115, 32, 62, 32, 86, 105, 100, 101, 111, 32, 62, 32, 84, 101, 108, 101, 118, 105, 115, 105, 111, 110, 115, 13>>,
  \* '  # Electronics'
  <<32, 32, 35, 32, 69, 108, 101, 99, 116, 114, 111, 110, 105, 99, 115>>,
  \* '222 - Electronics'
  <<50, 50, 50, 32, 45, 32, 69, 108, 101, 99, 116, 114, 111, 110, 105, 99, 115>>
 >>

\* 'Electronics > '
BulkPrefix == <<69, 108, 101, 99, 116, 114, 111, 110, 105, 99, 115, 32, 62, 32>>
\* the four-line scenario text
ScenarioText ==
 <<69, 108, 101, 99, 116, 114, 111, 110, 105, 99, 115, 32, 62, 32, 65, 117, 100, 105, 111, 10, 69, 108, 101, 99, 116, 114, 111, 110, 105, 99, 115, 32, 62, 32, 65, 117, 100, 105, 111, 32, 62, 32, 72, 101, 97, 100, 112, 104, 111, 110, 101, 115, 10, 82, 97, 110, 100, 111, 109, 67, 97, 116, 101, 103, 111, 114, 121, 10, 35, 32, 99, 111, 109, 109, 101, 110, 116, 10>>

\* ------------------------------------------------------- string helpers
\* str.strip() with no argument removes these (the codepoints below 256
\* for which str.isspace() holds).
Whitespace == {9, 10, 11, 12, 13, 28, 29, 30, 31, 32, 133, 160}

\* s.strip()
strip(s) ==
  LET keep == {k \in 1..Len(s) : s[k] \notin Whitespace}
  IN  IF keep = {} THEN <<>>
      ELSE LET lo == CHOOSE k \in keep : \A m \in keep : k <= m
               hi == CHOOSE k \in keep : \A m \in keep : m <= k
           IN  SubSeq(s, lo, hi)

\* s.split(sep) for a one-character sep: always at least one piece.
RECURSIVE split(_, _)
split(s, sep) ==
  LET at == {k \in 1..Len(s) : s[k] = sep}
  IN  IF at = {} THEN <<s>>
      ELSE LET p == CHOOSE k \in at : \A m \in at : k <= m
           IN  <<SubSeq(s, 1, p - 1)>> \o split(SubSeq(s, p + 1, Len(s)), sep)

\* s.startswith(p)
startswith(s, p) ==
  /\ Len(p) <= Len(s)
  /\ SubSeq(s, 1, Len(p)) = p

\* re.match(r'^' + literal, line): the patterns hold no metacharacter
\* besides the leading anchor, so the match is a literal prefix test.
re_match(pattern, line) == startswith(line, pattern)

\* a < b for str (codepoint-wise lexicographic order)
str_lt(a, b) ==
  LET n == IF Len(a) < Len(b) THEN Len(a) ELSE Len(b)
      diff == {k \in 1..n : a[k] # b[k]}
  IN  IF diff = {} THEN Len(a) < Len(b)
      ELSE LET d == CHOOSE k \in diff : \A m \in diff : k <= m
           IN  a[d] < b[d]

\* `not content`
falsy(c) == c = None \/ c = <<>>

\* slice_to cutting one entry late
slice_to_late(xs, n) == SubSeq(xs, 1, IF Len(xs) < n + 1 THEN Len(xs) ELSE n + 1)

\* xs[:n]
slice_to(xs, n) == SubSeq(xs, 1, IF Len(xs) < n THEN Len(xs) ELSE n)

\* contains looking at the first element only
contains_first(xs, x) == xs # <<>> /\ xs[1] = x

\* `x in xs`
contains(xs, x) == \E k \in 1..Len(xs) : xs[k] = x

\* list.sort(): stable, ascending by `<`.  An element goes in front of the
\* first strictly greater one, so equal elements keep their order.
RECURSIVE insert_sorted(_, _)
insert_sorted(sorted, x) ==
  IF sorted = <<>> THEN <<x>>
  ELSE IF str_lt(x, Head(sorted)) THEN <<x>> \o sorted
  ELSE <<Head(sorted)>> \o insert_sorted(Tail(sorted), x)

RECURSIVE sort_from(_, _, _)
sort_from(xs, k, acc) ==
  IF k > Len(xs) THEN acc
  ELSE sort_from(xs, k + 1, insert_sorted(acc, xs[k]))

\* list_sort leaving the list as it is
list_sort_skipped(xs) == xs

list_sort(xs) == sort_from(xs, 1, <<>>)

\* '\n'.join(ls)
RECURSIVE join(_)
join(ls) ==
  IF ls = <<>> THEN <<>>
  ELSE IF Len(ls) = 1 THEN ls[1]
  ELSE ls[1] \o <<NL>> \o join(Tail(ls))

\* ------------------------------------------------- texts the server sends
\* The k-th bulk line, 'Electronics > A', 'Electronics > B', ...: a taxonomy
\* line under the Electronics branch that is no fallback entry.
BulkLine(k) == BulkPrefix \o <<64 + k>>

\* n bulk lines in descending order, so that sorting has work to do.
Bulk(n) == [k \in 1..n |-> BulkLine(n + 1 - k)]

\* Bulk sizes on both sides of the two thresholds of the code.
BulkSizes ==
  {0, MinCategories - 2, MinCategories, MaxCategories - 1, MaxCategories + 1}

BaseSeqs == UNION {[1..n -> 1..Len(LinePool)] : n \in 0..MaxLines}

Texts ==
  {join(Bulk(n) \o [k \in 1..Len(b) |-> LinePool[b[k]]]) :
      n \in BulkSizes, b \in BaseSeqs}
  \cup {ScenarioText}

\* ------------------------------------------------------------------ state
VARIABLES
  pc,                     \* position of main()
  requests,               \* HTTP GETs issued so far
  content,                \* main: content
  lines,                  \* extract: lines
  i,                      \* extract: index of the `for line in lines` loop
  electronics_categories, \* extract: electronics_categories
  j,                      \* extract: index of the `for category in ...` loop
  categories,             \* main: categories
  subset_data,            \* main: subset_data (count and categories fields)
  output_file,            \* what public/taxonomy-subset.json holds
  w,                      \* number of chunks json.dump has written
  out,                    \* lines printed, as tags, in order
  filtered,               \* history: electronics_categories at line 58
  combined                \* history: electronics_categories at line 82

vars == <<pc, requests, content, lines, i, electronics_categories, j,
          categories, subset_data, output_file, w, out, filtered, combined>>

\* The file as the run finds it: whatever an earlier run left, untouched.
OldFile == [truncated |-> FALSE, count |-> -1, categories |-> <<>>,
            complete |-> FALSE]

NoRecord == [count |-> -1, categories |-> NoList]

Init ==
  /\ pc = "fetch"
  /\ requests = 0
  /\ content = None
  /\ lines = <<>>
  /\ i = 0
  /\ electronics_categories = <<>>
  /\ j = 0
  /\ categories = NoList
  /\ subset_data = NoRecord
  /\ output_file = OldFile
  /\ w = 0
  /\ out = <<>>
  /\ filtered = NoList
  /\ combined = NoList

\* ---------------------------------------------------------------- actions
\* main line 88-90, fetch_taxonomy lines 14-22: the GET succeeds and the
\* decoded body is returned.
FetchOk ==
  /\ pc = "fetch"
  /\ \E t \in Texts : content' = t
  /\ requests' = requests + 1
  /\ out' = out \o <<"fetching">>
  /\ pc' = "check"
  /\ UNCHANGED <<lines, i, electronics_categories, j, categories,
                 subset_data, output_file, w, filtered, combined>>

\* fetch_taxonomy lines 23-25: urlopen, read or decode raised.
FetchRaises ==
  /\ pc = "fetch"
  /\ content' = None
  /\ requests' = requests + 1
  /\ out' = out \o <<"fetching", "fetch_error">>
  /\ pc' = "check"
  /\ UNCHANGED <<lines, i, electronics_categories, j, categories,
                 subset_data, output_file, w, filtered, combined>>

\* MainCheck without the `return` after the failure message
MainCheck_NoReturn ==
  /\ pc = "check"
  /\ IF falsy(content)
       THEN out' = out \o <<"fetch_failed">>
       ELSE out' = out \o <<"fetched">>
  /\ pc' = "extract"
  /\ UNCHANGED <<requests, content, lines, i, electronics_categories, j,
                 categories, subset_data, output_file, w, filtered, combined>>

\* main lines 91-95
MainCheck ==
  /\ pc = "check"
  /\ IF falsy(content)
       THEN /\ out' = out \o <<"fetch_failed">>
            /\ pc' = "done"
       ELSE /\ out' = out \o <<"fetched">>
            /\ pc' = "extract"
  /\ UNCHANGED <<requests, content, lines, i, electronics_categories, j,
                 categories, subset_data, output_file, w, filtered, combined>>

\* extract_electronics_categories lines 29-33
ExtractBegin ==
  /\ pc = "extract"
  /\ IF falsy(content)
       THEN /\ categories' = <<>>
            /\ out' = out \o <<"found">>
            /\ pc' = "build"
            /\ UNCHANGED <<lines, i, electronics_categories>>
       ELSE /\ lines' = split(strip(content), NL)
            /\ electronics_categories' = <<>>
            /\ i' = 1
            /\ pc' = "filter"
            /\ UNCHANGED <<categories, out>>
  /\ UNCHANGED <<requests, content, j, subset_data, output_file, w,
                 filtered, combined>>

\* match_patterns without the `break`
RECURSIVE match_patterns_nobreak(_, _, _)
match_patterns_nobreak(line, cats, k) ==
  IF k > Len(target_patterns) THEN cats
  ELSE IF re_match(target_patterns[k], line)
    THEN match_patterns_nobreak(line, Append(cats, line), k + 1)
  ELSE match_patterns_nobreak(line, cats, k + 1)

\* lines 53-56: the first matching pattern appends the line and breaks.
RECURSIVE match_patterns(_, _, _)
match_patterns(line, cats, k) ==
  IF k > Len(target_patterns) THEN cats
  ELSE IF re_match(target_patterns[k], line) THEN Append(cats, line)
  ELSE match_patterns(line, cats, k + 1)

\* lines 50-56, one iteration of `for line in lines`; the last one falls
\* through to line 59.
FilterStep ==
  /\ pc = "filter"
  /\ i <= Len(lines)
  /\ LET line == strip(lines[i])
     IN  electronics_categories' =
           IF line # <<>> /\ ~startswith(line, <<HASH>>)
             THEN match_patterns(line, electronics_categories, 1)
             ELSE electronics_categories
  /\ i' = i + 1
  /\ pc' = IF i = Len(lines) THEN "pad_check" ELSE "filter"
  /\ UNCHANGED <<requests, content, lines, j, categories, subset_data,
                 output_file, w, out, filtered, combined>>

\* PadCheck testing `<=` in place of `<`
PadCheck_Inclusive ==
  /\ pc = "pad_check"
  /\ filtered' = electronics_categories
  /\ IF Len(electronics_categories) <= MinCategories
       THEN j' = 1 /\ pc' = "pad"
       ELSE j' = j /\ pc' = "sort"
  /\ UNCHANGED <<requests, content, lines, i, electronics_categories,
                 categories, subset_data, output_file, w, out, combined>>

\* line 59
PadCheck ==
  /\ pc = "pad_check"
  /\ filtered' = electronics_categories
  /\ IF Len(electronics_categories) < MinCategories
       THEN j' = 1 /\ pc' = "pad"
       ELSE j' = j /\ pc' = "sort"
  /\ UNCHANGED <<requests, content, lines, i, electronics_categories,
                 categories, subset_data, output_file, w, out, combined>>

\* PadStep appending without the `not in` test
PadStep_NoMembership ==
  /\ pc = "pad"
  /\ j <= Len(additional_categories)
  /\ electronics_categories' =
       Append(electronics_categories, additional_categories[j])
  /\ j' = j + 1
  /\ pc' = IF j = Len(additional_categories) THEN "sort" ELSE "pad"
  /\ UNCHANGED <<requests, content, lines, i, categories, subset_data,
                 output_file, w, out, filtered, combined>>

\* PadStep leaving the loop before the last fallback entry
PadStep_StopsEarly ==
  /\ pc = "pad"
  /\ j <= Len(additional_categories)
  /\ LET category == additional_categories[j]
     IN  electronics_categories' =
           IF j < Len(additional_categories)
              /\ ~contains(electronics_categories, category)
             THEN Append(electronics_categories, category)
             ELSE electronics_categories
  /\ j' = j + 1
  /\ pc' = IF j = Len(additional_categories) THEN "sort" ELSE "pad"
  /\ UNCHANGED <<requests, content, lines, i, categories, subset_data,
                 output_file, w, out, filtered, combined>>

\* lines 78-80, one iteration of `for category in additional_categories`
PadStep ==
  /\ pc = "pad"
  /\ j <= Len(additional_categories)
  /\ LET category == additional_categories[j]
     IN  electronics_categories' =
           IF ~contains(electronics_categories, category)
             THEN Append(electronics_categories, category)
             ELSE electronics_categories
  /\ j' = j + 1
  /\ pc' = IF j = Len(additional_categories) THEN "sort" ELSE "pad"
  /\ UNCHANGED <<requests, content, lines, i, categories, subset_data,
                 output_file, w, out, filtered, combined>>

\* lines 83-84 and main lines 98-99
SortAndReturn ==
  /\ pc = "sort"
  /\ combined' = electronics_categories
  /\ electronics_categories' = list_sort(electronics_categories)
  /\ categories' = slice_to(electronics_categories', MaxCategories)
  /\ out' = out \o <<"found">>
  /\ pc' = "build"
  /\ UNCHANGED <<requests, content, lines, i, j, subset_data, output_file,
                 w, filtered>>

\* main lines 102-108
BuildRecord ==
  /\ pc = "build"
  /\ subset_data' = [count |-> Len(categories), categories |-> categories]
  /\ pc' = "open"
  /\ UNCHANGED <<requests, content, lines, i, electronics_categories, j,
                 categories, output_file, w, out, filtered, combined>>

\* main line 113: open(output_file, 'w') succeeds and truncates the file.
OpenFile ==
  /\ pc = "open"
  /\ output_file' = [truncated |-> TRUE, count |-> -1, categories |-> <<>>,
                     complete |-> FALSE]
  /\ w' = 0
  /\ pc' = "dump"
  /\ UNCHANGED <<requests, content, lines, i, electronics_categories, j,
                 categories, subset_data, out, filtered, combined>>

\* main line 114: json.dump writes the record in key order: source and
\* count, then the categories one by one, then description, lastUpdated and
\* the closing brace; leaving the `with` block closes the file.
DumpChunk ==
  /\ pc = "dump"
  /\ LET n == Len(subset_data.categories)
     IN  /\ output_file' =
              IF w = 0 THEN [output_file EXCEPT !.count = subset_data.count]
              ELSE IF w <= n
                THEN [output_file EXCEPT
                        !.categories = Append(@, subset_data.categories[w])]
              ELSE [output_file EXCEPT !.complete = TRUE]
         /\ pc' = IF w = n + 1 THEN "report" ELSE "dump"
  /\ w' = w + 1
  /\ UNCHANGED <<requests, content, lines, i, electronics_categories, j,
                 categories, subset_data, out, filtered, combined>>

\* main lines 123-124: open or a write raised; the handler prints and main
\* returns.  The file keeps whatever reached it.
WriteRaises ==
  /\ pc \in {"open", "dump"}
  /\ out' = out \o <<"write_error">>
  /\ pc' = "done"
  /\ UNCHANGED <<requests, content, lines, i, electronics_categories, j,
                 categories, subset_data, output_file, w, filtered, combined>>

\* main lines 115-121
Report ==
  /\ pc = "report"
  /\ out' = out \o <<"written">>
  /\ pc' = "done"
  /\ UNCHANGED <<requests, content, lines, i, electronics_categories, j,
                 categories, subset_data, output_file, w, filtered, combined>>

Next ==
  \/ FetchOk
  \/ FetchRaises
  \/ MainCheck
  \/ ExtractBegin
  \/ FilterStep
  \/ PadCheck
  \/ PadStep
  \/ SortAndReturn
  \/ BuildRecord
  \/ OpenFile
  \/ DumpChunk
  \/ WriteRaises
  \/ Report

Spec == Init /\ [][Next]_vars

\* ------------------------------------------------- vocabulary of claims
printed(tag) == \E k \in 1..Len(out) : out[k] = tag

\* a <= b in codepoint-wise lexicographic order, stated by recursion on the
\* first characters.
RECURSIVE LexLeq(_, _)
LexLeq(a, b) ==
  IF a = <<>> THEN TRUE
  ELSE IF b = <<>> THEN FALSE
  ELSE IF a[1] # b[1] THEN a[1] < b[1]
  ELSE LexLeq(Tail(a), Tail(b))

IsSorted(xs) == \A k \in 1..(Len(xs) - 1) : LexLeq(xs[k], xs[k + 1])

\* number of occurrences of x in xs
Count(xs, x) == Cardinality({k \in 1..Len(xs) : xs[k] = x})

Elems(xs) == {xs[k] : k \in 1..Len(xs)}

HasDuplicate(xs) == \E a, b \in 1..Len(xs) : a < b /\ xs[a] = xs[b]

\* The lines of a text: the pieces between consecutive newlines.
RawLines(text) ==
  LET nl == {k \in 1..Len(text) : text[k] = NL}
      n  == Cardinality(nl)
      \* position of the m-th newline; 0 before the text, Len + 1 after it
      pos(m) == IF m = 0 THEN 0
                ELSE IF m = n + 1 THEN Len(text) + 1
                ELSE CHOOSE k \in nl :
                       Cardinality({q \in nl : q <= k}) = m
  IN  [m \in 1..(n + 1) |-> SubSeq(text, pos(m - 1) + 1, pos(m) - 1)]

\* A line with its surrounding whitespace removed, one character at a time.
RECURSIVE Trimmed(_)
Trimmed(s) ==
  IF s = <<>> THEN s
  ELSE IF s[1] \in Whitespace THEN Trimmed(Tail(s))
  ELSE IF s[Len(s)] \in Whitespace THEN Trimmed(SubSeq(s, 1, Len(s) - 1))
  ELSE s

HasPrefix(l, p) == Len(p) <= Len(l) /\ \A k \in 1..Len(p) : l[k] = p[k]

MatchingPatterns(l) ==
  {k \in 1..Len(target_patterns) : HasPrefix(l, target_patterns[k])}

\* a trimmed line the filter is to keep
Kept(l) == l # <<>> /\ l[1] # HASH /\ MatchingPatterns(l) # {}

TrimmedLines(text) ==
  LET raw == RawLines(text) IN [m \in 1..Len(raw) |-> Trimmed(raw[m])]

Written == output_file.complete

\* ----------------------------------------------------------------- claims

\* C1: whenever main() has written the output file, the record in it has
\* count equal to the number of categories, and at most 20 categories.
C1_CountMatchesLength ==
  Written =>
    /\ output_file.count = Len(output_file.categories)
    /\ Len(output_file.categories) <= 20

\* C1 witness: a file written from more than 20 combined entries.
C1_Witness == Written /\ Len(combined) > 20

\* C2: the categories in the written output are in non-decreasing
\* lexicographic order, also when truncation to 20 was applied.
C2_OutputSorted == Written => IsSorted(output_file.categories)

\* C2 witness: a truncated output whose combined sequence was not in order.
C2_Witness == Written /\ Len(combined) > 20 /\ ~IsSorted(combined)

\* C3: once the fetch has raised, fetch_taxonomy has returned None, exactly
\* one request was made, no categories and no record exist, the output file
\* is untouched, and main ends having reported the failure.
C3_FetchFailureHalts ==
  printed("fetch_error") =>
    /\ content = None
    /\ requests = 1
    /\ categories = NoList
    /\ filtered = NoList
    /\ subset_data = NoRecord
    /\ output_file = OldFile
    /\ pc \in {"check", "done"}
    /\ (pc = "done" => printed("fetch_failed"))

\* C3 witness: main has returned after a fetch that raised.
C3_Witness == printed("fetch_error") /\ pc = "done"

\* C4: when fewer than 15 lines survive the filter, every fallback entry is
\* in the combined sequence, whose length lies between the filtered length
\* and the filtered length + 14, and which starts with the filtered lines.
C4_PaddingComplete ==
  (combined # NoList /\ Len(filtered) < 15) =>
    /\ \A k \in 1..Len(additional_categories) :
         additional_categories[k] \in Elems(combined)
    /\ Len(additional_categories) = 14
    /\ Len(filtered) <= Len(combined)
    /\ Len(combined) <= Len(filtered) + 14
    /\ SubSeq(combined, 1, Len(filtered)) = filtered

\* C4 witness: padding took place and skipped an entry already present.
C4_Witness ==
  /\ combined # NoList
  /\ Len(filtered) \in 1..14
  /\ Len(combined) < Len(filtered) + 14

\* C5: when 15 or more lines survive the filter, the fallback loop is never
\* entered, the combined sequence is the filtered one, and the output is
\* the filtered sequence sorted and cut to its first 20 entries: it is in
\* order, has min(20, length) entries, holds no entry more often than the
\* filtered sequence does, and an entry it holds less often is not below
\* its 20th.
C5_NoPaddingAtThreshold ==
  (combined # NoList /\ Len(filtered) >= 15) =>
    /\ j = 0
    /\ combined = filtered
    /\ Written =>
         LET cats == output_file.categories
         IN  /\ IsSorted(cats)
             /\ Len(cats) = (IF Len(filtered) < 20 THEN Len(filtered) ELSE 20)
             /\ \A s \in Elems(cats) : Count(cats, s) <= Count(filtered, s)
             /\ \A s \in Elems(filtered) :
                  Count(cats, s) < Count(filtered, s) =>
                    Len(cats) = 20 /\ LexLeq(cats[20], s)

\* C5 witness: an output written from exactly 15 filtered lines.
C5_Witness == Written /\ filtered # NoList /\ Len(filtered) = 15

\* C6 (as stated): for the four-line scenario text the filtered sequence is
\* the two Electronics lines and the padder appends all 14 fallback
\* entries, skipping none.
C6_Original ==
  (content = ScenarioText /\ combined # NoList) =>
    /\ filtered = <<LinePool[1], LinePool[2]>>
    /\ combined = filtered \o additional_categories

\* C6 (amended): for the four-line scenario text the filtered sequence is
\* the two Electronics lines; the padder skips the first fallback entry,
\* 'Electronics > Audio > Headphones', which is the second filtered line,
\* and appends the other 13; the written list has 15 entries, at most 20,
\* and count is 15.
C6_ScenarioPadsThirteen ==
  (content = ScenarioText /\ combined # NoList) =>
    /\ filtered = <<LinePool[1], LinePool[2]>>
    /\ filtered[2] = additional_categories[1]
    /\ combined = filtered \o Tail(additional_categories)
    /\ Written =>
         /\ Len(output_file.categories) = 15
         /\ output_file.count = 15

\* C6 witness: the scenario text has been written out.
C6_Witness == content = ScenarioText /\ Written

\* C7 (as stated): the written categories hold no string more than once.
C7_Original == Written => ~HasDuplicate(output_file.categories)

\* C7 (amended): only the fallback entries are deduplicated: a string occurs
\* in the written categories at most as often as among the filtered lines,
\* and at most once if it is not among them.
C7_OnlyFallbackDeduplicated ==
  Written =>
    \A s \in Elems(output_file.categories) :
      Count(output_file.categories, s) <=
        (IF Count(filtered, s) = 0 THEN 1 ELSE Count(filtered, s))

\* C7 witness: a written output that repeats a line of the text and whose
\* filtered lines held a fallback entry.
C7_Witness ==
  /\ Written
  /\ HasDuplicate(output_file.categories)
  /\ \E k \in 1..Len(additional_categories) :
       additional_categories[k] \in Elems(filtered)
  /\ Len(filtered) < 15

\* C8: for a non-empty fetched text the list returned by
\* extract_electronics_categories has at least 15 entries.
C8_AtLeastFifteen ==
  (categories # NoList /\ content # <<>>) => Len(categories) >= 15

\* C9: when writing fails, the failure is reported, main ends, and the file
\* holds the complete record or is what it was before the run.
C9_NoPartialOutput ==
  (pc = "done" /\ printed("write_error")) =>
    (output_file = OldFile \/ output_file.complete)

\* C10: the filter output is the subsequence, in file order, of the trimmed
\* lines of the text that are non-empty, do not start with '#', and match
\* at least one pattern; a line occurrence gives at most one entry.
C10_FilterIsSubsequence ==
  filtered # NoList => filtered = SelectSeq(TrimmedLines(content), Kept)

\* C10 witness: the filter kept some lines and dropped others, and kept a
\* line that several patterns match.
C10_Witness ==
  /\ filtered # NoList
  /\ Len(filtered) \in 1..(Len(RawLines(content)) - 1)
  /\ \E s \in Elems(filtered) : Cardinality(MatchingPatterns(s)) >= 2
  /\ \E m \in 1..Len(RawLines(content)) :
       RawLines(content)[m] # Trimmed(RawLines(content)[m])

====
